---- MODULE Spec2Model ----
(***************************************************************************)
(* A model of github.com/bakins/iap-token-source: an oauth2 token source   *)
(* for Google Identity Aware Proxy.  The repository holds two variants of  *)
(* package iap: the signing flow (New(audience, opts...), which signs a    *)
(* JWT assertion and POSTs it to the token endpoint) and the metadata-     *)
(* aware flow (New(ctx, audience, filename)).  Both hand their token       *)
(* source to oauth2.ReuseTokenSource, whose cache is modelled here too.    *)
(***************************************************************************)
EXTENDS Integers, Sequences, FiniteSets, TLC

(***************************************************************************)
(* Machine integers.  Go's int64 (time.Duration, the expires_in field) is  *)
(* a little-endian sequence of 8 bytes in two's complement; time.Time      *)
(* instants, which Go keeps as 64-bit seconds plus nanoseconds, are exact  *)
(* nanosecond counts held in 12 bytes.                                     *)
(***************************************************************************)
Byte == 256

DurBytes == 8

TimeBytes == 12

\* Two's complement bytes of a small natural number n (n < 2^31).
NatW(n, w) == [i \in 1..w |-> IF i <= 4 THEN (n \div (Byte ^ (i - 1))) % Byte ELSE 0]

IsNeg(a) == a[Len(a)] >= 128

RECURSIVE AddFrom(_, _, _, _)
AddFrom(a, b, i, c) ==
    IF i > Len(a) THEN << >>
    ELSE LET s == a[i] + b[i] + c
         IN  <<s % Byte>> \o AddFrom(a, b, i + 1, s \div Byte)

\* a + b modulo 2^(8 * Len(a)): the wrapping addition of Go's fixed-width integers.
AddW(a, b) == AddFrom(a, b, 1, 0)

NegW(a) == AddW([i \in 1..Len(a) |-> 255 - a[i]], NatW(1, Len(a)))

\* Two's complement bytes of a small integer.
IntW(n, w) == IF n >= 0 THEN NatW(n, w) ELSE NegW(NatW(0 - n, w))

RECURSIVE ColSum(_, _, _, _)
ColSum(a, b, k, i) ==
    IF i > k THEN 0 ELSE a[i] * b[k + 1 - i] + ColSum(a, b, k, i + 1)

RECURSIVE CarryFrom(_, _, _, _)
CarryFrom(a, b, k, c) ==
    IF k > Len(a) THEN << >>
    ELSE LET s == ColSum(a, b, k, 1) + c
         IN  <<s % Byte>> \o CarryFrom(a, b, k + 1, s \div Byte)

\* a * b modulo 2^(8 * Len(a)): Go's wrapping multiplication.
MulW(a, b) == CarryFrom(a, b, 1, 0)

\* Sign extension to w bytes (exact: the value is unchanged).
SignExtend(a, w) ==
    [i \in 1..w |-> IF i <= Len(a) THEN a[i] ELSE IF IsNeg(a) THEN 255 ELSE 0]

RECURSIVE ULtFrom(_, _, _)
ULtFrom(a, b, i) ==
    IF i = 0 THEN FALSE
    ELSE IF a[i] # b[i] THEN a[i] < b[i]
    ELSE ULtFrom(a, b, i - 1)

\* Signed a < b.
LtW(a, b) ==
    IF IsNeg(a) # IsNeg(b) THEN IsNeg(a) ELSE ULtFrom(a, b, Len(a))


(***************************************************************************)
(* Time.  The clock `now` counts whole seconds; a time.Time instant is the *)
(* exact nanosecond count since the clock's origin.                        *)
(***************************************************************************)
\* time.Second, in nanoseconds, as a time.Duration.
Second == NatW(1000000000, DurBytes)

\* time.Hour = 60 * 60 * time.Second.
Hour == MulW(NatW(3600, DurBytes), Second)

\* time.Minute * 30.
Minute30 == MulW(NatW(1800, DurBytes), Second)

\* oauth2's expiryDelta = 10 * time.Second: the safety margin of Token.Valid.
expiryDelta == MulW(NatW(10, DurBytes), Second)

\* time.Now() when the clock reads s seconds.
TimeOf(s) == MulW(IntW(s, TimeBytes), SignExtend(Second, TimeBytes))

\* Time.Add(d): exact, Go's Time does not wrap in this range.
TimeAdd(t, d) == AddW(t, SignExtend(d, TimeBytes))

\* Time.Before(u).
Before(t, u) == LtW(t, u)

\* t shifted right by 9 bits (t \div 512), for t >= 0.
Shr9(t) ==
    [i \in 1..Len(t) |->
        (IF i + 1 <= Len(t) THEN t[i + 1] \div 2 ELSE 0)
        + (IF i + 2 <= Len(t) THEN (t[i + 2] % 2) * 128 ELSE 0)]

\* Long division of the bytes t[1..k] by 5^9, most significant byte first.
RECURSIVE QuoFrom(_, _, _, _)
QuoFrom(t, k, rem, quo) ==
    IF k = 0 THEN quo
    ELSE LET r == rem * Byte + t[k]
         IN  QuoFrom(t, k - 1, r % 1953125, quo * Byte + (r \div 1953125))

\* Time.Unix() of a non-negative instant: whole seconds, t \div (2^9 * 5^9).
Unix(t) == QuoFrom(Shr9(t), Len(t), 0, 0)

(***************************************************************************)
(* Tokens and exchange responses.                                          *)
(***************************************************************************)
TokenURI == "https://www.googleapis.com/oauth2/v4/token"

GrantType == "urn:ietf:params:oauth:grant-type:jwt-bearer"

\* The nil *oauth2.Token.
NoToken == [set |-> FALSE, AccessToken |-> "", TokenType |-> "", Expiry |-> TimeOf(0)]

\* What PostForm can come back with: a transport error, a response whose body
\* cannot be read, or a response with a status and a body.  A body is the JSON
\* object it holds (a record of the fields present), or not such an object.
TransportError == [kind |-> "transport_error"]

ReadError == [kind |-> "read_error", status |-> 200]

Http(status, body) == [kind |-> "http", status |-> status, unmarshals |-> TRUE, body |-> body]

NotJSON(status) == [kind |-> "http", status |-> status, unmarshals |-> FALSE]

\* 2^55 seconds: an int64 whose product with time.Second is 0 modulo 2^64.
Pow55 == <<0, 0, 0, 0, 0, 0, 128, 0>>

Bodies ==
    { [id_token |-> "hello-world"],
      [id_token |-> "tok-120", token_type |-> "bearer", expires_in |-> NatW(120, DurBytes)],
      [id_token |-> "tok-0", token_type |-> "", expires_in |-> NatW(0, DurBytes)],
      [id_token |-> "tok-neg", expires_in |-> IntW(0 - 60, DurBytes)],
      [id_token |-> "tok-huge", expires_in |-> Pow55] }

ErrorBody == [error |-> "invalid_grant"]

Responses ==
    {TransportError, ReadError, NotJSON(500), Http(400, ErrorBody)}
        \cup {Http(200, b) : b \in Bodies}

\* json.Unmarshal into struct{TokenType, IDToken string; ExpiresIn int64}: a
\* field the object does not carry keeps its zero value.
Unmarshal(body) ==
    [TokenType |-> IF "token_type" \in DOMAIN body THEN body.token_type ELSE "",
     IDToken   |-> IF "id_token" \in DOMAIN body THEN body.id_token ELSE "",
     ExpiresIn |-> IF "expires_in" \in DOMAIN body THEN body.expires_in
                   ELSE NatW(0, DurBytes)]

(***************************************************************************)
(* Credentials: private keys, service-account blobs, files, environment.   *)
(***************************************************************************)
\* A private_key value: whether it is PEM at all, what its DER bytes parse as,
\* and whether the RSA key it holds can sign an RS256 digest.
Key(pem, der, signs) == [pem |-> pem, der |-> der, signs |-> signs]

NoKey == Key(FALSE, "", FALSE)

GoodPKCS1 == Key(TRUE, "pkcs1", TRUE)

GoodPKCS8 == Key(TRUE, "pkcs8-rsa", TRUE)

TinyPKCS1 == Key(TRUE, "pkcs1", FALSE)

ECPKCS8 == Key(TRUE, "pkcs8-ec", TRUE)

GarbagePEM == Key(TRUE, "garbage", FALSE)

NotPEM == Key(FALSE, "garbage", FALSE)

BadKeys == {ECPKCS8, GarbagePEM, NotPEM}

\* A credentials blob: JSON or not, its "type", "client_email", "private_key",
\* "token_uri".
Blob(json, type, email, key) ==
    [json |-> json, type |-> type, client_email |-> email, private_key |-> key,
     token_uri |-> ""]

\* A service-account blob without token_uri, as the test marshals it.
ServiceAccount(email, key) == Blob(TRUE, "service_account", email, key)

\* The token_uri of a downloaded key file, and the jwt.Config.TokenURL that
\* google.JWTConfigFromJSON falls back to.
KeyFileTokenURI == "https://accounts.google.com/o/oauth2/token"

JWTTokenURL == "https://oauth2.googleapis.com/token"

\* A service-account key file as downloaded.
KeyFile(email, key) == [ServiceAccount(email, key) EXCEPT !.token_uri = KeyFileTokenURI]

BadJSON == Blob(FALSE, "", "", NoKey)

UserCredentials == Blob(TRUE, "authorized_user", "", NoKey)

Email1 == "hello-world@example.com"

Email2 == "other@example.com"

\* The files of the file system, by name; any other name does not exist.
Files ==
    [f \in {"sa.json", "bad.json"} |->
        IF f = "sa.json" THEN KeyFile(Email2, GoodPKCS8) ELSE BadJSON]

WellKnownName == "~/.config/gcloud/application_default_credentials.json"

\* ioutil.ReadFile under environment e: the well-known file is there when e says so.
ReadFile(e, filename) ==
    IF filename \in DOMAIN Files THEN [ok |-> TRUE, data |-> Files[filename]]
    ELSE IF filename = WellKnownName /\ e.wellKnown \in {"sa", "user"}
    THEN [ok |-> TRUE,
          data |-> IF e.wellKnown = "sa" THEN ServiceAccount(Email1, GoodPKCS1)
                   ELSE UserCredentials]
    ELSE [ok |-> FALSE, data |-> BadJSON]

\* google.JWTConfigFromJSON: the blob must be JSON of type service_account.
NoJWT == [set |-> FALSE, Email |-> "", PrivateKey |-> NoKey, TokenURL |-> ""]

JWTConfigFromJSON(blob) ==
    IF blob.json /\ blob.type = "service_account"
    THEN [ok |-> TRUE,
          cfg |-> [set |-> TRUE, Email |-> blob.client_email, PrivateKey |-> blob.private_key,
                   TokenURL |-> IF blob.token_uri = "" THEN JWTTokenURL ELSE blob.token_uri]]
    ELSE [ok |-> FALSE, cfg |-> NoJWT]

\* Mutant of parseKey: the assertion that the key is RSA is left out.
parseKeyAnyKey(key) ==
    IF ~key.pem
    THEN [ok |-> FALSE, err |-> "invalid private key data", tried |-> << >>]
    ELSE IF key.der \in {"pkcs8-rsa", "pkcs8-ec"}
    THEN [ok |-> TRUE, err |-> "", tried |-> <<"pkcs8">>]
    ELSE IF key.der = "pkcs1"
    THEN [ok |-> TRUE, err |-> "", tried |-> <<"pkcs8", "pkcs1">>]
    ELSE [ok |-> FALSE, err |-> "private key should be a PEM or plain PKCS1 or PKCS8",
          tried |-> <<"pkcs8", "pkcs1">>]

\* parseKey: pem.Decode, then PKCS#8, then PKCS#1 if PKCS#8 failed, then the
\* assertion that the key is RSA.  `tried` lists the parsers run, in order.
parseKey(key) ==
    IF ~key.pem
    THEN [ok |-> FALSE, err |-> "invalid private key data", tried |-> << >>]
    ELSE IF key.der \in {"pkcs8-rsa", "pkcs8-ec"}
    THEN IF key.der = "pkcs8-rsa"
         THEN [ok |-> TRUE, err |-> "", tried |-> <<"pkcs8">>]
         ELSE [ok |-> FALSE, err |-> "private key is invalid", tried |-> <<"pkcs8">>]
    ELSE IF key.der = "pkcs1"
    THEN [ok |-> TRUE, err |-> "", tried |-> <<"pkcs8", "pkcs1">>]
    ELSE [ok |-> FALSE, err |-> "private key should be a PEM or plain PKCS1 or PKCS8",
          tried |-> <<"pkcs8", "pkcs1">>]

(***************************************************************************)
(* The signing flow's options and construction (New(audience, opts...)).   *)
(***************************************************************************)
WithPostFormer(p) == [type |-> "WithPostFormer", p |-> p, json |-> BadJSON, filename |-> ""]

WithServiceAccount(blob) ==
    [type |-> "WithServiceAccount", p |-> "", json |-> blob, filename |-> ""]

WithServiceAccountFile(filename) ==
    [type |-> "WithServiceAccountFile", p |-> "", json |-> BadJSON, filename |-> filename]

\* The nil *IAP.
NoIAP == [set |-> FALSE, audience |-> "", jwt |-> NoJWT, postFormer |-> "", strategy |-> ""]

\* Applying one option to i under environment e.
ApplyOption(i, o, e) ==
    IF o.type = "WithPostFormer"
    THEN [ok |-> TRUE, err |-> "", i |-> [i EXCEPT !.postFormer = o.p]]
    ELSE IF o.type = "WithServiceAccount"
    THEN LET j == JWTConfigFromJSON(o.json)
         IN  IF j.ok THEN [ok |-> TRUE, err |-> "", i |-> [i EXCEPT !.jwt = j.cfg]]
             ELSE [ok |-> FALSE, err |-> "failed to create JWT config", i |-> i]
    ELSE LET f == ReadFile(e, o.filename)
             j == JWTConfigFromJSON(f.data)
         IN  IF ~f.ok THEN [ok |-> FALSE, err |-> "failed to read file", i |-> i]
             ELSE IF j.ok THEN [ok |-> TRUE, err |-> "", i |-> [i EXCEPT !.jwt = j.cfg]]
             ELSE [ok |-> FALSE, err |-> "failed to create JWT config from file", i |-> i]

\* Mutant of ApplyOptions: the options are applied last to first, so that the
\* first of two options of a kind is the one that stays.
RECURSIVE ApplyOptionsFirstWins(_, _, _)
ApplyOptionsFirstWins(i, opts, e) ==
    IF opts = << >> THEN [ok |-> TRUE, err |-> "", i |-> i]
    ELSE LET r == ApplyOptionsFirstWins(i, Tail(opts), e)
         IN  IF r.ok THEN ApplyOption(r.i, Head(opts), e) ELSE r

\* The loop over opts: the first failing option ends it.
RECURSIVE ApplyOptions(_, _, _)
ApplyOptions(i, opts, e) ==
    IF opts = << >> THEN [ok |-> TRUE, err |-> "", i |-> i]
    ELSE LET r == ApplyOption(i, Head(opts), e)
         IN  IF r.ok THEN ApplyOptions(r.i, Tail(opts), e) ELSE r

\* Mutant of NewConfig: with no service account set and the environment variable
\* empty, the well-known file is read instead of failing.
NewConfigWellKnown(audience, opts, e) ==
    LET i0 == [set |-> TRUE, audience |-> audience, jwt |-> NoJWT,
               postFormer |-> "http.Client", strategy |-> "signing"]
        r1 == ApplyOptions(i0, opts, e)
        f  == IF e.cred # "" THEN e.cred ELSE WellKnownName
        r2 == IF r1.ok /\ ~r1.i.jwt.set
              THEN ApplyOption(r1.i, WithServiceAccountFile(f), e)
              ELSE r1
        pk == parseKey(r2.i.jwt.PrivateKey)
        src == IF r1.ok /\ r1.i.jwt.set THEN "option" ELSE "env"
        none == [ok |-> FALSE, err |-> "", i |-> NoIAP, source |-> "", parsed |-> FALSE,
                 key |-> NoKey, tried |-> << >>]
    IN  IF ~r1.ok
        THEN [none EXCEPT !.err = "option failed"]
        ELSE IF ~r2.ok
        THEN [none EXCEPT !.err = r2.err, !.source = src]
        ELSE IF ~pk.ok
        THEN [none EXCEPT !.err = "failed to parse private key", !.source = src,
                          !.parsed = TRUE, !.key = r2.i.jwt.PrivateKey, !.tried = pk.tried]
        ELSE [ok |-> TRUE, err |-> "", i |-> r2.i, source |-> src, parsed |-> TRUE,
              key |-> r2.i.jwt.PrivateKey, tried |-> pk.tried]

\* New up to the eager ts.Token(): options, the environment variable, parseKey.
\* `source` tells where the service account came from; `parsed` whether parseKey
\* was reached, `key` what it was given and `tried` the parsers it ran.
NewConfig(audience, opts, e) ==
    LET i0 == [set |-> TRUE, audience |-> audience, jwt |-> NoJWT,
               postFormer |-> "http.Client", strategy |-> "signing"]
        r1 == ApplyOptions(i0, opts, e)
        r2 == IF r1.ok /\ ~r1.i.jwt.set /\ e.cred # ""
              THEN ApplyOption(r1.i, WithServiceAccountFile(e.cred), e)
              ELSE r1
        pk == parseKey(r2.i.jwt.PrivateKey)
        src == IF r1.ok /\ r1.i.jwt.set THEN "option" ELSE "env"
        none == [ok |-> FALSE, err |-> "", i |-> NoIAP, source |-> "", parsed |-> FALSE,
                 key |-> NoKey, tried |-> << >>]
    IN  IF ~r1.ok
        THEN [none EXCEPT !.err = "option failed"]
        ELSE IF ~r1.i.jwt.set /\ e.cred = ""
        THEN [none EXCEPT !.err =
                "no ServiceAccount option set and GOOGLE_APPLICATION_CREDENTIALS is not set"]
        ELSE IF ~r2.ok
        THEN [none EXCEPT !.err = r2.err, !.source = src]
        ELSE IF ~pk.ok
        THEN [none EXCEPT !.err = "failed to parse private key", !.source = src,
                          !.parsed = TRUE, !.key = r2.i.jwt.PrivateKey, !.tried = pk.tried]
        ELSE [ok |-> TRUE, err |-> "", i |-> r2.i, source |-> src, parsed |-> TRUE,
              key |-> r2.i.jwt.PrivateKey, tried |-> pk.tried]

(***************************************************************************)
(* The signing flow's exchange (tokenSource.Token).                        *)
(***************************************************************************)
\* A call frame with no request in flight.
NoReq ==
    [active |-> FALSE, iat |-> 0, method |-> "", url |-> "", audience |-> "",
     grant_type |-> "", assertion |-> [signed |-> FALSE]]

\* Mutant of TokenRequest: the POST goes to the credentials' token URL, which is
\* the assertion's aud as well.
TokenRequestTokenURL(i, iat) ==
    [active |-> TRUE, iat |-> iat, method |-> "POST", url |-> i.jwt.TokenURL, audience |-> "",
     grant_type |-> GrantType,
     assertion |->
        [signed |-> TRUE,
         header |-> [Algorithm |-> "RS256", Typ |-> "JWT"],
         Iss |-> i.jwt.Email,
         Aud |-> i.jwt.TokenURL,
         Iat |-> iat,
         Exp |-> Unix(TimeAdd(TimeOf(iat), Hour)),
         target_audience |-> i.audience,
         key |-> i.jwt.PrivateKey]]

\* Mutant of TokenRequest: the assertion's aud is the caller's target audience.
TokenRequestAudience(i, iat) ==
    [active |-> TRUE, iat |-> iat, method |-> "POST", url |-> TokenURI, audience |-> "",
     grant_type |-> GrantType,
     assertion |->
        [signed |-> TRUE,
         header |-> [Algorithm |-> "RS256", Typ |-> "JWT"],
         Iss |-> i.jwt.Email,
         Aud |-> i.audience,
         Iat |-> iat,
         Exp |-> Unix(TimeAdd(TimeOf(iat), Hour)),
         target_audience |-> i.audience,
         key |-> i.jwt.PrivateKey]]

\* The claim set and header signed at clock reading iat, and the POST that
\* carries them: the frame of tokenSource.Token up to PostForm.
TokenRequest(i, iat) ==
    [active |-> TRUE, iat |-> iat, method |-> "POST", url |-> TokenURI, audience |-> "",
     grant_type |-> GrantType,
     assertion |->
        [signed |-> TRUE,
         header |-> [Algorithm |-> "RS256", Typ |-> "JWT"],
         Iss |-> i.jwt.Email,
         Aud |-> TokenURI,
         Iat |-> iat,
         Exp |-> Unix(TimeAdd(TimeOf(iat), Hour)),
         target_audience |-> i.audience,
         key |-> i.jwt.PrivateKey]]

\* Mutant of TokenFromResponse: a body that is not JSON is taken as an object
\* with no fields.
TokenFromResponseLenient(iat, resp) ==
    IF resp.kind = "transport_error"
    THEN [ok |-> FALSE, err |-> "failed to POST token request", tok |-> NoToken]
    ELSE IF resp.kind = "read_error"
    THEN [ok |-> FALSE, err |-> "failed to read response body", tok |-> NoToken]
    ELSE LET t == IF resp.unmarshals THEN Unmarshal(resp.body)
                  ELSE [TokenType |-> "", IDToken |-> "", ExpiresIn |-> NatW(0, DurBytes)]
             tokenType == IF t.TokenType = "" THEN "Bearer" ELSE t.TokenType
             exp == TimeAdd(TimeOf(iat), Hour)
             expiry == IF t.ExpiresIn # NatW(0, DurBytes)
                       THEN TimeAdd(TimeOf(iat), MulW(t.ExpiresIn, Second))
                       ELSE exp
         IN  [ok |-> TRUE, err |-> "",
              tok |-> [set |-> TRUE, AccessToken |-> t.IDToken, TokenType |-> tokenType,
                       Expiry |-> expiry]]

\* Mutant of TokenFromResponse: token_type is passed on without the default.
TokenFromResponseNoDefault(iat, resp) ==
    IF resp.kind = "transport_error"
    THEN [ok |-> FALSE, err |-> "failed to POST token request", tok |-> NoToken]
    ELSE IF resp.kind = "read_error"
    THEN [ok |-> FALSE, err |-> "failed to read response body", tok |-> NoToken]
    ELSE IF ~resp.unmarshals
    THEN [ok |-> FALSE, err |-> "failed to unmarshal request body", tok |-> NoToken]
    ELSE LET t == Unmarshal(resp.body)
             exp == TimeAdd(TimeOf(iat), Hour)
             expiry == IF t.ExpiresIn # NatW(0, DurBytes)
                       THEN TimeAdd(TimeOf(iat), MulW(t.ExpiresIn, Second))
                       ELSE exp
         IN  [ok |-> TRUE, err |-> "",
              tok |-> [set |-> TRUE, AccessToken |-> t.IDToken, TokenType |-> t.TokenType,
                       Expiry |-> expiry]]

\* The rest of tokenSource.Token: from PostForm's result to the token.
TokenFromResponse(iat, resp) ==
    IF resp.kind = "transport_error"
    THEN [ok |-> FALSE, err |-> "failed to POST token request", tok |-> NoToken]
    ELSE IF resp.kind = "read_error"
    THEN [ok |-> FALSE, err |-> "failed to read response body", tok |-> NoToken]
    ELSE IF ~resp.unmarshals
    THEN [ok |-> FALSE, err |-> "failed to unmarshal request body", tok |-> NoToken]
    ELSE LET t == Unmarshal(resp.body)
             tokenType == IF t.TokenType = "" THEN "Bearer" ELSE t.TokenType
             exp == TimeAdd(TimeOf(iat), Hour)
             expiry == IF t.ExpiresIn # NatW(0, DurBytes)
                       THEN TimeAdd(TimeOf(iat), MulW(t.ExpiresIn, Second))
                       ELSE exp
         IN  [ok |-> TRUE, err |-> "",
              tok |-> [set |-> TRUE, AccessToken |-> t.IDToken, TokenType |-> tokenType,
                       Expiry |-> expiry]]

(***************************************************************************)
(* The metadata flow's exchange (metadataTokenSource.Token).               *)
(***************************************************************************)
MetadataPath == "instance/service-accounts/default/identity"

\* An audience that holds an "&".
Audience3 == "https://svc.example.com/?a=1&b=2"

\* The value of the parameter `audience` in the query "audience=" + a, where a
\* is appended as it is, not escaped: a up to its first "&".  (Strings are
\* atomic here, so the cut is written out for the audiences in play.)
QueryValue(a) == IF a = Audience3 THEN "https://svc.example.com/?a=1" ELSE a

\* metadata.Get(MetadataPath + "?audience=" + audience): the GET and the
\* audience parameter it carries.
MetadataRequest(i, at) ==
    [active |-> TRUE, iat |-> at, method |-> "GET", url |-> MetadataPath,
     audience |-> QueryValue(i.audience), grant_type |-> "", assertion |-> [signed |-> FALSE]]

\* What metadata.Get can come back with: an error, or the body as a string.
MetadataResponses ==
    {[kind |-> "metadata_error"], [kind |-> "metadata", data |-> "md-token"],
     [kind |-> "metadata", data |-> "md-token-2"]}

\* The token is stamped with the time the response is handled, plus 30 minutes.
MetadataTokenFromResponse(at, resp) ==
    IF resp.kind = "metadata_error"
    THEN [ok |-> FALSE, err |-> "failed to get token from metadata service", tok |-> NoToken]
    ELSE [ok |-> TRUE, err |-> "",
          tok |-> [set |-> TRUE, AccessToken |-> resp.data, TokenType |-> "Bearer",
                   Expiry |-> TimeAdd(TimeOf(at), Minute30)]]

(***************************************************************************)
(* oauth2.ReuseTokenSource: the cache both variants put in front of their  *)
(* exchange.  Its Token() holds a mutex, returns the cached token while    *)
(* Valid, and otherwise asks the wrapped source and stores what it gets.   *)
(***************************************************************************)
\* Token.expired: Expiry.Add(-expiryDelta).Before(time.Now()).  (A zero Expiry
\* never expires; no exchange of this program produces one.)
expired(t, at) == Before(TimeAdd(t.Expiry, NegW(expiryDelta)), TimeOf(at))

\* Token.Valid.
Valid(t, at) == t.set /\ t.AccessToken # "" /\ ~expired(t, at)

(***************************************************************************)
(* The metadata-aware variant's construction (New(ctx, audience, filename) *)
(* and getTokenSource).                                                    *)
(***************************************************************************)
\* os.Stat of the well-known file under environment e.
StatWellKnown(e) ==
    IF e.wellKnown = "absent" THEN "notexist"
    ELSE IF e.wellKnown = "staterror" THEN "error"
    ELSE "ok"

\* readCredentialsFile.
readCredentialsFile(e, filename) ==
    LET f == ReadFile(e, filename)
        j == JWTConfigFromJSON(f.data)
    IN  IF ~f.ok THEN [ok |-> FALSE, err |-> "read failed", cfg |-> NoJWT]
        ELSE IF ~j.ok
        THEN [ok |-> FALSE, err |-> "failed to read service account", cfg |-> NoJWT]
        ELSE [ok |-> TRUE, err |-> "", cfg |-> j.cfg]

\* Mutant of getTokenSource: the environment variable is not consulted.
getTokenSourceNoEnv(filename, audience, e) ==
    LET f1 == filename
        st == StatWellKnown(e)
        f2 == IF f1 = "" /\ st = "ok" THEN WellKnownName ELSE f1
        c  == readCredentialsFile(e, f2)
        none == [ok |-> FALSE, err |-> "", strategy |-> "", file |-> "", cfg |-> NoJWT]
    IN  IF f1 = "" /\ st = "error"
        THEN [none EXCEPT !.err = "stat failed"]
        ELSE IF f2 # ""
        THEN IF c.ok
             THEN [ok |-> TRUE, err |-> "", strategy |-> "jwt", file |-> f2, cfg |-> c.cfg]
             ELSE [none EXCEPT !.err = c.err, !.file = f2]
        ELSE IF e.onGCE
        THEN [ok |-> TRUE, err |-> "", strategy |-> "metadata", file |-> "", cfg |-> NoJWT]
        ELSE [none EXCEPT !.err = "unable to determine credentials source"]

\* getTokenSource: which token source New gets, and from which file.
getTokenSource(filename, audience, e) ==
    LET f1 == IF filename = "" /\ e.cred # "" THEN e.cred ELSE filename
        st == StatWellKnown(e)
        f2 == IF f1 = "" /\ st = "ok" THEN WellKnownName ELSE f1
        c  == readCredentialsFile(e, f2)
        none == [ok |-> FALSE, err |-> "", strategy |-> "", file |-> "", cfg |-> NoJWT]
    IN  IF f1 = "" /\ st = "error"
        THEN [none EXCEPT !.err = "stat failed"]
        ELSE IF f2 # ""
        THEN IF c.ok
             THEN [ok |-> TRUE, err |-> "", strategy |-> "jwt", file |-> f2, cfg |-> c.cfg]
             ELSE [none EXCEPT !.err = c.err, !.file = f2]
        ELSE IF e.onGCE
        THEN [ok |-> TRUE, err |-> "", strategy |-> "metadata", file |-> "", cfg |-> NoJWT]
        ELSE [none EXCEPT !.err = "unable to determine credentials source"]

(***************************************************************************)
(* Bounds of the model.                                                    *)
(***************************************************************************)
\* Goroutines that call Token() on the constructed token source.
NumCallers == 2

\* Token() calls made in one behaviour.
MaxCalls == 3

\* Times the clock is advanced in one behaviour.
MaxTicks == 2

\* Options passed to the signing flow's New.
MaxOpts == 2

\* Caller 0 is New's own eager call of ts.Token().
Callers == 1..NumCallers

Frames == 0..NumCallers

\* The amounts the clock advances by: 115 s puts a 120 s token inside the safety
\* margin of its expiry, 3480 s leaves an hour's token valid and, with 115 s more,
\* inside the margin; a half-hour token is expired after 3480 s.
TickSteps == {115, 3480}

(***************************************************************************)
(* State.                                                                  *)
(***************************************************************************)
VARIABLES
    osenv,    \* the environment: GOOGLE_APPLICATION_CREDENTIALS, the well-known file, the platform
    now,      \* the clock, in seconds
    ticks,    \* times the clock was advanced
    call,     \* the arguments New was called with
    newPc,    \* New: "start", "exchange" (blocked in PostForm), "done", "failed"
    newErr,   \* the error New returned
    newLog,   \* what New's configuration did: key parsers tried, credential source
    iap,      \* the *IAP under construction, then returned (NoIAP: nil)
    rts,      \* the ReuseTokenSource: cached token t, mutex holder mu (0: free)
    origin,   \* the last exchange that gave a token (or New's, failed): its start, its response
    pc,       \* each caller's place in Token(): "idle", "lock", "exchange"
    req,      \* each frame's request in flight
    ret,      \* each caller's last result: token or error, the requests that call sent, the response it
              \* got; and, while a call is in progress, the clock reading at which it began
    nCalls,   \* Token() calls begun
    newPosts  \* requests New sent to the token endpoint

vars ==
    <<osenv, now, ticks, call, newPc, newErr, newLog, iap, rts, origin, pc, req, ret,
      nCalls, newPosts>>

NoOrigin == [iat |-> 0, resp |-> [kind |-> "none"]]

\* A caller that has got nothing back yet.
NoRet ==
    [done |-> FALSE, ok |-> FALSE, tok |-> NoToken, err |-> "", exchanges |-> 0,
     resp |-> [kind |-> "none"], began |-> 0]

NoLog == [source |-> "", parsed |-> FALSE, key |-> NoKey, tried |-> << >>]

NoCall == [variant |-> "", audience |-> "", opts |-> << >>, filename |-> ""]

InitWith(envs) ==
    /\ osenv \in envs
    /\ now = 0
    /\ ticks = 0
    /\ call = NoCall
    /\ newPc = "start"
    /\ newErr = ""
    /\ newLog = NoLog
    /\ iap = NoIAP
    /\ rts = [t |-> NoToken, mu |-> 0]
    /\ origin = NoOrigin
    /\ pc = [p \in Callers |-> "idle"]
    /\ req = [p \in Frames |-> NoReq]
    /\ ret = [p \in Callers |-> NoRet]
    /\ nCalls = 0
    /\ newPosts = 0

(***************************************************************************)
(* Actions.                                                                *)
(***************************************************************************)
\* New returns (nil, err).
NewFails(err) ==
    /\ newPc' = "failed"
    /\ newErr' = err
    /\ iap' = NoIAP

\* The signing flow's New(audience, opts...), up to the point where its eager
\* ts.Token() blocks in PostForm: the options, the environment variable,
\* parseKey, the claim set, jws.Encode.
NewSigning(audience, opts) ==
    /\ newPc = "start"
    /\ call' = [variant |-> "signing", audience |-> audience, opts |-> opts, filename |-> ""]
    /\ LET c == NewConfig(audience, opts, osenv)
       IN  /\ newLog' = [source |-> c.source, parsed |-> c.parsed, key |-> c.key,
                          tried |-> c.tried]
           /\ IF ~c.ok
              THEN NewFails(c.err) /\ UNCHANGED <<req, newPosts>>
              ELSE IF ~c.i.jwt.PrivateKey.signs
              THEN NewFails("failed to get token") /\ UNCHANGED <<req, newPosts>>
              ELSE /\ newPc' = "exchange"
                   /\ newErr' = ""
                   /\ iap' = c.i
                   /\ req' = [req EXCEPT ![0] = TokenRequest(c.i, now)]
                   /\ newPosts' = newPosts + 1
    /\ UNCHANGED <<osenv, now, ticks, rts, origin, pc, ret, nCalls>>

\* PostForm returns to New's eager ts.Token(): the token seeds the cache
\* (oauth2.ReuseTokenSource(tok, ts)), or New fails.
NewReturn(resp) ==
    /\ newPc = "exchange"
    /\ LET r == TokenFromResponse(req[0].iat, resp)
           o == [iat |-> req[0].iat, resp |-> resp]
       IN  /\ origin' = o
           /\ IF r.ok
              THEN /\ newPc' = "done"
                   /\ rts' = [t |-> r.tok, mu |-> 0]
                   /\ UNCHANGED <<newErr, iap>>
              ELSE /\ NewFails("failed to get token")
                   /\ UNCHANGED rts
    /\ req' = [req EXCEPT ![0] = NoReq]
    /\ UNCHANGED <<osenv, now, ticks, call, newLog, pc, ret, nCalls, newPosts>>

\* Mutant of NewMetadataAware: with the metadata strategy New fetches a first
\* token before it returns.
NewMetadataAwareEager(audience, filename) ==
    /\ newPc = "start"
    /\ call' = [variant |-> "metadata", audience |-> audience, opts |-> << >>,
                filename |-> filename]
    /\ LET g == getTokenSource(filename, audience, osenv)
           i == [set |-> TRUE, audience |-> audience, jwt |-> g.cfg,
                 postFormer |-> "", strategy |-> g.strategy]
       IN  /\ newLog' = [NoLog EXCEPT !.source = g.file]
           /\ IF g.ok
              THEN /\ newPc' = "done"
                   /\ newErr' = ""
                   /\ iap' = i
                   /\ req' = IF g.strategy = "metadata"
                             THEN [req EXCEPT ![0] = MetadataRequest(i, now)]
                             ELSE req
              ELSE NewFails(g.err) /\ UNCHANGED req
    /\ UNCHANGED <<osenv, now, ticks, rts, origin, pc, ret, nCalls, newPosts>>

\* The metadata-aware New(ctx, audience, filename): getTokenSource picks the
\* token source; nothing is fetched.
NewMetadataAware(audience, filename) ==
    /\ newPc = "start"
    /\ call' = [variant |-> "metadata", audience |-> audience, opts |-> << >>,
                filename |-> filename]
    /\ LET g == getTokenSource(filename, audience, osenv)
       IN  /\ newLog' = [NoLog EXCEPT !.source = g.file]
           /\ IF g.ok
              THEN /\ newPc' = "done"
                   /\ newErr' = ""
                   /\ iap' = [set |-> TRUE, audience |-> audience, jwt |-> g.cfg,
                              postFormer |-> "", strategy |-> g.strategy]
              ELSE NewFails(g.err)
    /\ UNCHANGED <<osenv, now, ticks, rts, origin, pc, req, ret, nCalls, newPosts>>

\* A goroutine calls IAP.Token(), which calls the ReuseTokenSource's Token().
\* (With a credentials file the metadata-aware variant hands out the jwt
\* package's own token source, whose exchange is not this repository's.)
TokenCall(p) ==
    /\ newPc = "done"
    /\ iap.strategy \in {"signing", "metadata"}
    /\ pc[p] = "idle"
    /\ nCalls < MaxCalls
    /\ pc' = [pc EXCEPT ![p] = "lock"]
    /\ ret' = [ret EXCEPT ![p].began = now]
    /\ nCalls' = nCalls + 1
    /\ UNCHANGED <<osenv, now, ticks, call, newPc, newErr, newLog, iap, rts, origin, req,
                   newPosts>>

\* The request the wrapped source sends when asked at clock reading `at`.
Request(i, at) ==
    IF i.strategy = "signing" THEN TokenRequest(i, at) ELSE MetadataRequest(i, at)

\* Mutant of TokenLock: the cache is checked without taking the mutex.
TokenLockNoMutex(p) ==
    /\ pc[p] = "lock"
    /\ IF Valid(rts.t, now)
       THEN /\ ret' = [ret EXCEPT ![p] =
                        [done |-> TRUE, ok |-> TRUE, tok |-> rts.t, err |-> "",
                         exchanges |-> 0, resp |-> [kind |-> "none"],
                         began |-> 0]]
            /\ pc' = [pc EXCEPT ![p] = "idle"]
            /\ UNCHANGED <<rts, req>>
       ELSE /\ rts' = [rts EXCEPT !.mu = p]
            /\ pc' = [pc EXCEPT ![p] = "exchange"]
            /\ req' = [req EXCEPT ![p] = Request(iap, now)]
            /\ UNCHANGED ret
    /\ UNCHANGED <<osenv, now, ticks, call, newPc, newErr, newLog, iap, origin, nCalls,
                   newPosts>>

\* ReuseTokenSource.Token takes the mutex and checks the cached token: if it is
\* Valid the call returns it; if not, the wrapped source's Token() starts and
\* blocks in its request, the mutex held.
TokenLock(p) ==
    /\ pc[p] = "lock"
    /\ rts.mu = 0
    /\ IF Valid(rts.t, now)
       THEN /\ ret' = [ret EXCEPT ![p] =
                        [done |-> TRUE, ok |-> TRUE, tok |-> rts.t, err |-> "",
                         exchanges |-> 0, resp |-> [kind |-> "none"],
                         began |-> 0]]
            /\ pc' = [pc EXCEPT ![p] = "idle"]
            /\ UNCHANGED <<rts, req>>
       ELSE /\ rts' = [rts EXCEPT !.mu = p]
            /\ pc' = [pc EXCEPT ![p] = "exchange"]
            /\ req' = [req EXCEPT ![p] = Request(iap, now)]
            /\ UNCHANGED ret
    /\ UNCHANGED <<osenv, now, ticks, call, newPc, newErr, newLog, iap, origin, nCalls,
                   newPosts>>

\* Mutant of Refreshed: a refresh overwrites the cached token's access token
\* and leaves its other fields as they were.
RefreshedTorn(p, r, o) ==
    /\ rts' = [t |-> IF r.ok
                     THEN [rts.t EXCEPT !.set = TRUE, !.AccessToken = r.tok.AccessToken]
                     ELSE rts.t,
               mu |-> 0]
    /\ origin' = IF r.ok THEN o ELSE origin
    /\ ret' = [ret EXCEPT ![p] =
                 [done |-> TRUE, ok |-> r.ok, tok |-> IF r.ok THEN rts'.t ELSE r.tok,
                  err |-> r.err, exchanges |-> 1, resp |-> o.resp, began |-> 0]]
    /\ pc' = [pc EXCEPT ![p] = "idle"]
    /\ req' = [req EXCEPT ![p] = NoReq]
    /\ UNCHANGED <<osenv, now, ticks, call, newPc, newErr, newLog, iap, nCalls, newPosts>>

\* Mutant of Refreshed: a failed refresh throws the cached token away.
RefreshedDropsCache(p, r, o) ==
    /\ rts' = [t |-> r.tok, mu |-> 0]
    /\ origin' = IF r.ok THEN o ELSE origin
    /\ ret' = [ret EXCEPT ![p] =
                 [done |-> TRUE, ok |-> r.ok, tok |-> r.tok, err |-> r.err, exchanges |-> 1,
                  resp |-> o.resp, began |-> 0]]
    /\ pc' = [pc EXCEPT ![p] = "idle"]
    /\ req' = [req EXCEPT ![p] = NoReq]
    /\ UNCHANGED <<osenv, now, ticks, call, newPc, newErr, newLog, iap, nCalls, newPosts>>

\* The wrapped source's result r reaches ReuseTokenSource.Token: a token is
\* stored and returned, an error is returned and the cache left alone; the
\* mutex is released.
Refreshed(p, r, o) ==
    /\ rts' = [t |-> IF r.ok THEN r.tok ELSE rts.t, mu |-> 0]
    /\ origin' = IF r.ok THEN o ELSE origin
    /\ ret' = [ret EXCEPT ![p] =
                 [done |-> TRUE, ok |-> r.ok, tok |-> r.tok, err |-> r.err, exchanges |-> 1,
                  resp |-> o.resp, began |-> 0]]
    /\ pc' = [pc EXCEPT ![p] = "idle"]
    /\ req' = [req EXCEPT ![p] = NoReq]
    /\ UNCHANGED <<osenv, now, ticks, call, newPc, newErr, newLog, iap, nCalls, newPosts>>

\* PostForm returns to a refresh of the signing flow.
TokenReturn(p, resp) ==
    /\ pc[p] = "exchange"
    /\ iap.strategy = "signing"
    /\ Refreshed(p, TokenFromResponse(req[p].iat, resp), [iat |-> req[p].iat, resp |-> resp])

\* metadata.Get returns to a refresh of the metadata flow.
MetadataReturn(p, resp) ==
    /\ pc[p] = "exchange"
    /\ iap.strategy = "metadata"
    /\ Refreshed(p, MetadataTokenFromResponse(now, resp), [iat |-> now, resp |-> resp])

\* Mutant of Tick: a token that the passing time expires is dropped from the
\* cache, as a background sweep would.
TickSweeps(d) ==
    /\ ticks < MaxTicks
    /\ now' = now + d
    /\ ticks' = ticks + 1
    /\ rts' = IF rts.t.set /\ expired(rts.t, now + d) THEN [rts EXCEPT !.t = NoToken] ELSE rts
    /\ UNCHANGED <<osenv, call, newPc, newErr, newLog, iap, origin, pc, req, ret,
                   nCalls, newPosts>>

\* Time passes.
Tick(d) ==
    /\ ticks < MaxTicks
    /\ now' = now + d
    /\ ticks' = ticks + 1
    /\ UNCHANGED <<osenv, call, newPc, newErr, newLog, iap, rts, origin, pc, req, ret,
                   nCalls, newPosts>>

(***************************************************************************)
(* Specifications.                                                         *)
(***************************************************************************)
Env(cred, wellKnown, onGCE) == [cred |-> cred, wellKnown |-> wellKnown, onGCE |-> onGCE]

Audience1 == "test@example.com"

Audience2 == "other-client-id"

\* The life of one token source used by one goroutine: a few ways to construct
\* it, then Token() calls as time passes.
LifeEnvs == {Env("sa.json", "absent", FALSE), Env("", "absent", TRUE)}

LifeSigning ==
    { <<Audience1,
        <<WithServiceAccount(ServiceAccount(Email1, GoodPKCS1)),
          WithPostFormer("testPortFormer")>> >>,
      <<Audience2, << >> >>,
      <<Audience1, <<WithServiceAccount(ServiceAccount(Email1, TinyPKCS1))>> >> }

LifeMetadata == { <<Audience3, "">>, <<Audience1, "missing.json">> }

Init == InitWith(LifeEnvs)

Next ==
    \/ \E c \in LifeSigning : NewSigning(c[1], c[2])
    \/ \E r \in Responses : NewReturn(r)
    \/ \E c \in LifeMetadata : NewMetadataAware(c[1], c[2])
    \/ TokenCall(1)
    \/ TokenLock(1)
    \/ \E r \in Responses : TokenReturn(1, r)
    \/ \E r \in MetadataResponses : MetadataReturn(1, r)
    \/ \E d \in TickSteps : Tick(d)

Spec == Init /\ [][Next]_vars

\* Construction alone, over every kind of option, credentials blob, key, file
\* and environment.
CredValues == {"", "sa.json", "bad.json", "missing.json"}

WellKnownValues == {"absent", "sa", "user", "unreadable", "staterror"}

NewEnvs == {Env(c, w, g) : c \in CredValues, w \in WellKnownValues, g \in BOOLEAN}

NewBlobs ==
    {ServiceAccount(Email1, GoodPKCS1), ServiceAccount(Email2, GoodPKCS8),
     ServiceAccount(Email1, TinyPKCS1), BadJSON, UserCredentials}
        \cup {ServiceAccount(Email1, k) : k \in BadKeys}

Filenames == {"sa.json", "bad.json", "missing.json"}

Options ==
    {WithPostFormer("testPortFormer"), WithPostFormer("http.DefaultClient")}
        \cup {WithServiceAccount(b) : b \in NewBlobs}
        \cup {WithServiceAccountFile(f) : f \in Filenames}

OptSeqs == UNION {[1..k -> Options] : k \in 0..MaxOpts}

InitNew == InitWith(NewEnvs)

NextNew ==
    \/ \E o \in OptSeqs : NewSigning(Audience1, o)
    \/ \E r \in Responses : NewReturn(r)
    \/ \E a \in {Audience1, Audience2}, f \in Filenames \cup {""} : NewMetadataAware(a, f)

SpecNew == InitNew /\ [][NextNew]_vars

\* Several goroutines sharing one token source: New, then a burst of concurrent
\* Token() calls, as many as there are goroutines, as time passes.
ConcSigning ==
    <<Audience1,
      <<WithServiceAccount(ServiceAccount(Email1, GoodPKCS1)), WithPostFormer("testPortFormer")>> >>

ConcResponses ==
    {TransportError, Http(400, ErrorBody), Http(200, [id_token |-> "hello-world"])}

\* An hour: every token of either flow expires in it.
ConcTicks == {3600}

InitConc == InitWith(LifeEnvs)

\* One Token() call of the burst.
BurstCall(p) == nCalls < NumCallers /\ TokenCall(p)

NextConc ==
    \/ NewSigning(ConcSigning[1], ConcSigning[2])
    \/ \E r \in ConcResponses : NewReturn(r)
    \/ NewMetadataAware(Audience2, "")
    \/ \E p \in Callers : BurstCall(p)
    \/ \E p \in Callers : TokenLock(p)
    \/ \E p \in Callers, r \in ConcResponses : TokenReturn(p, r)
    \/ \E p \in Callers, r \in MetadataResponses : MetadataReturn(p, r)
    \/ \E d \in ConcTicks : Tick(d)

SpecConc == InitConc /\ [][NextConc]_vars

(***************************************************************************)
(* Properties.                                                             *)
(***************************************************************************)
Signing == call.variant = "signing"

MetadataAware == call.variant = "metadata"

\* The cached token is inside its validity window at clock reading `at`: it is
\* set and the expiry, less the safety margin, has not passed.
InWindow(t, at) == t.set /\ ~expired(t, at)

\* The token endpoint answered with success: status 200 and an id_token.
SuccessResponse(r) ==
    r.kind = "http" /\ r.unmarshals /\ r.status = 200 /\ "id_token" \in DOMAIN r.body

\* The token endpoint answered with an error: a status outside 2xx, or a JSON
\* body without an id_token.
ErrorResponse(r) ==
    /\ r.kind = "http"
    /\ \/ r.status \notin 200..299
       \/ r.unmarshals /\ "id_token" \notin DOMAIN r.body

\* The exchange itself failed: no response, no readable body, no JSON.
FailedExchange(r) ==
    \/ r.kind \in {"transport_error", "read_error", "metadata_error"}
    \/ r.kind = "http" /\ ~r.unmarshals

\* Caller 1's Token() leaves ReuseTokenSource's check of the cache.
Checks == pc[1] = "lock" /\ pc'[1] # "lock"

\* That check returned the cached token and sent nothing.
ServedFromCache ==
    /\ pc'[1] = "idle"
    /\ req' = req
    /\ ret'[1].done /\ ret'[1].ok
    /\ ret'[1].tok = rts.t
    /\ ret'[1].exchanges = 0
    /\ rts' = rts

\* C1: while the cached token is inside its validity window a Token() call
\* (and so each of two consecutive ones) performs no exchange and returns the
\* cached token; the first Token() call after the token has expired sends one
\* request, and the call ends having performed exactly that one exchange.
C1_CachedThenOneRefresh ==
    [][ /\ (Checks /\ InWindow(rts.t, now)) => ServedFromCache
        /\ (Checks /\ rts.t.set /\ Before(rts.t.Expiry, TimeOf(now)))
              => (pc'[1] = "exchange" /\ req'[1].active)
        /\ (pc[1] = "exchange" /\ pc'[1] # "exchange")
              => (ret'[1].exchanges = 1 /\ ~req'[1].active) ]_vars

\* C2: in the signing flow a Token() call that succeeded on a success response
\* returns that response's id_token as the access token, and as token type the
\* response's token_type, or "Bearer" when that is absent or empty.
C2_TokenFields ==
    (Signing /\ ret[1].done /\ ret[1].ok /\ SuccessResponse(origin.resp)) =>
        LET b == origin.resp.body
        IN  /\ ret[1].tok.AccessToken = b.id_token
            /\ ret[1].tok.TokenType =
                 IF "token_type" \in DOMAIN b /\ b.token_type # "" THEN b.token_type
                 ELSE "Bearer"

\* A Token() call has returned hello-world as a Bearer token from the response
\* {"id_token":"hello-world"}.
C2_Witness ==
    /\ Signing /\ newPc = "done" /\ ret[1].done /\ ret[1].ok
    /\ origin.resp = Http(200, [id_token |-> "hello-world"])
    /\ ret[1].tok.AccessToken = "hello-world"
    /\ ret[1].tok.TokenType = "Bearer"

\* The options that set the service account, and the email each one gives.
CredentialOptions(opts) ==
    {k \in 1..Len(opts) : opts[k].type \in {"WithServiceAccount", "WithServiceAccountFile"}}

EmailOf(o) ==
    IF o.type = "WithServiceAccount" THEN o.json.client_email
    ELSE Files[o.filename].client_email

\* The email of the service account New was given: the last credential option's,
\* or that of the file the environment variable names.
ServiceAccountEmail ==
    LET ks == CredentialOptions(call.opts)
    IN  IF ks = {} THEN Files[osenv.cred].client_email
        ELSE EmailOf(call.opts[CHOOSE k \in ks : \A j \in ks : j <= k])

\* C3: every signed assertion sent to the token endpoint, by New or by a
\* refresh, has iss = the service account's email, aud = the token endpoint URL
\* and target_audience = the audience New was given.
C3_AssertionClaims ==
    \A f \in Frames :
        (req[f].active /\ req[f].method = "POST") =>
            /\ req[f].url = TokenURI
            /\ req[f].assertion.signed
            /\ req[f].assertion.Iss = ServiceAccountEmail
            /\ req[f].assertion.Aud = TokenURI
            /\ req[f].assertion.target_audience = call.audience

\* A refresh, after New's own exchange, has its assertion in flight.
C3_Witness ==
    /\ Signing /\ newPc = "done" /\ pc[1] = "exchange"
    /\ req[1].active /\ req[1].assertion.signed
    /\ req[1].assertion.Iss = Email2
    /\ req[1].assertion.target_audience = Audience2

\* The expiry the response's expires_in n calls for, in exact arithmetic.
ExpiryFor(iat, n) ==
    IF n = NatW(0, DurBytes) THEN TimeAdd(TimeOf(iat), Hour)
    ELSE AddW(TimeOf(iat), MulW(SignExtend(n, TimeBytes), SignExtend(Second, TimeBytes)))

\* C4: the cached token's expiry is iat + 1 hour when the response's expires_in
\* is 0 or absent, and iat + n seconds for every other expires_in n, iat being
\* the time read before the POST.
C4_Expiry ==
    (Signing /\ rts.t.set) =>
        rts.t.Expiry = ExpiryFor(origin.iat, Unmarshal(origin.resp.body).ExpiresIn)

\* C5: an error response never ends in success: New does not succeed on it, a
\* Token() call does not succeed on it, and no token with an empty access
\* token is cached or returned.
C5_ErrorResponseFails ==
    Signing =>
        /\ newPc = "done" => (~ErrorResponse(origin.resp) /\ rts.t.AccessToken # "")
        /\ (ret[1].done /\ ret[1].ok) =>
              (~ErrorResponse(ret[1].resp) /\ ret[1].tok.AccessToken # "")

\* C6: the signing flow's New performs exactly one exchange; if it fails New
\* returns an error and no token source; if it succeeds the token seeds the
\* cache, and the first Token() call, made while that token is inside its
\* validity window, returns the seeded token without an exchange.
C6_EagerSeed ==
    [][ Signing =>
          /\ newPc' \in {"exchange", "done"} => newPosts' = 1
          /\ newPc' = "failed" => (iap' = NoIAP /\ newErr' # "" /\ newPosts' <= 1)
          /\ (newPc = "exchange" /\ newPc' = "done") =>
                (rts'.t.set /\ rts'.t = TokenFromResponse(origin'.iat, origin'.resp).tok)
          /\ (Checks /\ nCalls = 1 /\ InWindow(rts.t, now)) => ServedFromCache ]_vars

\* The key is not PEM, or its DER bytes are neither a PKCS#8 RSA key nor a
\* PKCS#1 key.
Unparseable(k) == ~k.pem \/ k.der \notin {"pkcs8-rsa", "pkcs1"}

\* The DER bytes parse as PKCS#8.
ParsesAsPKCS8(k) == k.der \in {"pkcs8-rsa", "pkcs8-ec"}

\* C7: when the service account's private key cannot be parsed, the signing
\* flow's New returns an error, sends nothing and returns no token source; the
\* key is parsed as PKCS#8 first, and as PKCS#1 only when PKCS#8 parsing failed.
C7_UnparseableKey ==
    (Signing /\ newLog.parsed) =>
        /\ Unparseable(newLog.key) =>
              /\ newPc = "failed" /\ newErr # ""
              /\ iap = NoIAP
              /\ newPosts = 0
              /\ \A f \in Frames : ~req[f].active
        /\ newLog.tried =
              IF ~newLog.key.pem THEN << >>
              ELSE IF ParsesAsPKCS8(newLog.key) THEN <<"pkcs8">>
              ELSE <<"pkcs8", "pkcs1">>

\* New has failed on a PKCS#8 key that is not RSA, PKCS#1 not tried.
C7_Witness ==
    /\ Signing /\ newLog.parsed /\ newLog.key = ECPKCS8
    /\ newLog.tried = <<"pkcs8">>
    /\ newPc = "failed" /\ newPosts = 0

\* No option of the call sets the service account.
NoCredentialOption == CredentialOptions(call.opts) = {}

ConfigError == "no ServiceAccount option set and GOOGLE_APPLICATION_CREDENTIALS is not set"

\* The well-known file is there, whatever it holds.
WellKnownExists(e) == e.wellKnown \in {"sa", "user", "unreadable"}

\* C8: with no credential option the signing flow's New takes the credentials
\* from the file the environment variable names, then from the well-known
\* file, and fails with a configuration error only if neither is there.
C8_EnvThenWellKnown ==
    (Signing /\ newPc # "start" /\ NoCredentialOption) =>
        /\ osenv.cred = "sa.json" =>
              (newLog.parsed /\ newLog.key = Files["sa.json"].private_key)
        /\ (osenv.cred = "" /\ osenv.wellKnown = "sa") =>
              (newLog.parsed /\ newLog.key = GoodPKCS1)
        /\ newErr = ConfigError => (osenv.cred = "" /\ ~WellKnownExists(osenv))

\* C8, amended: with no credential option the signing flow's New takes the
\* credentials from the file the environment variable names and from nowhere
\* else; it fails with a configuration error, nothing read and nothing sent,
\* exactly when the variable is empty, whatever the well-known file is; a
\* named file that cannot be read or parsed makes New fail.
C8_EnvOnly ==
    (Signing /\ newPc # "start" /\ NoCredentialOption) =>
        /\ newErr = ConfigError <=> osenv.cred = ""
        /\ osenv.cred = "" => (newPc = "failed" /\ ~newLog.parsed /\ newPosts = 0)
        /\ osenv.cred = "sa.json" =>
              (newLog.parsed /\ newLog.key = Files["sa.json"].private_key /\ newPosts = 1)
        /\ osenv.cred \in {"missing.json", "bad.json"} =>
              (newPc = "failed" /\ newErr # "" /\ ~newLog.parsed /\ newPosts = 0)

\* New has failed with the configuration error although a usable well-known
\* file is there.
C8_Witness ==
    /\ Signing /\ NoCredentialOption
    /\ osenv.cred = "" /\ osenv.wellKnown = "sa"
    /\ newPc = "failed" /\ newErr = ConfigError

\* The first source of spec's chain that applies: a file name, "metadata", or
\* "none".
ChainSource(filename, e) ==
    IF filename # "" THEN filename
    ELSE IF e.cred # "" THEN e.cred
    ELSE IF WellKnownExists(e) THEN WellKnownName
    ELSE IF e.onGCE THEN "metadata"
    ELSE "none"

\* The file can be read and holds a service account.
Usable(e, f) == ReadFile(e, f).ok /\ JWTConfigFromJSON(ReadFile(e, f).data).ok

\* What New did is what the source src calls for.
Follows(src) ==
    IF src = "none" THEN newPc = "failed" /\ iap = NoIAP
    ELSE IF src = "metadata" THEN newPc = "done" /\ iap.strategy = "metadata"
    ELSE IF Usable(osenv, src)
    THEN /\ newPc = "done" /\ iap.strategy = "jwt" /\ newLog.source = src
         /\ iap.jwt = JWTConfigFromJSON(ReadFile(osenv, src).data).cfg
    ELSE newPc = "failed" /\ iap = NoIAP

\* C9: the metadata-aware New takes the first of: the explicit filename, the
\* file the environment variable names, the well-known file if it exists, the
\* metadata strategy if on the platform, failure; metadata is chosen only when
\* no file was located, and a located file that cannot be read or parsed makes
\* New fail.
C9_Chain ==
    (MetadataAware /\ newPc # "start") => Follows(ChainSource(call.filename, osenv))

\* Probing the well-known file fails for a reason other than its absence.
ProbeFails(e) == e.wellKnown = "staterror"

\* C9, amended: as C9, but when neither a filename nor the environment
\* variable is given and probing the well-known file fails for a reason other
\* than the file not existing, New fails, on the platform or not.
C9_ChainProbe ==
    (MetadataAware /\ newPc # "start") =>
        IF call.filename = "" /\ osenv.cred = "" /\ ProbeFails(osenv)
        THEN newPc = "failed" /\ iap = NoIAP /\ newErr # ""
        ELSE Follows(ChainSource(call.filename, osenv))

\* On the platform, New has failed because the well-known file could not be
\* probed.
C9_Witness ==
    /\ MetadataAware /\ call.filename = "" /\ osenv.cred = ""
    /\ ProbeFails(osenv) /\ osenv.onGCE
    /\ newPc = "failed" /\ newErr = "stat failed"

\* C10: a failed exchange is not retried: New, or the Token() call, makes that
\* one attempt and returns the error and no token, the cached token stays as
\* it was, and the next Token() call makes a fresh attempt.
C10_NoRetry ==
    [][ /\ (pc[1] = "exchange" /\ req'[1] # req[1]) =>
              (pc'[1] = "idle" /\ ~req'[1].active /\ ret'[1].exchanges = 1)
        /\ (pc[1] = "exchange" /\ pc'[1] = "idle" /\ FailedExchange(ret'[1].resp)) =>
              /\ ~ret'[1].ok /\ ret'[1].err # ""
              /\ ret'[1].tok = NoToken
              /\ rts'.t = rts.t
        /\ (newPc = "exchange" /\ newPc' # "exchange" /\ FailedExchange(origin'.resp)) =>
              /\ newPc' = "failed" /\ newErr' # "" /\ iap' = NoIAP
              /\ newPosts' = 1 /\ ~req'[0].active
              /\ rts' = rts
        /\ (Checks /\ ret[1].done /\ ~ret[1].ok) =>
              (pc'[1] = "exchange" /\ req'[1].active) ]_vars

\* A refresh has failed and the expired token it was to replace is still cached.
C10_Witness ==
    /\ pc[1] = "idle" /\ ret[1].done /\ ~ret[1].ok /\ ret[1].err # ""
    /\ FailedExchange(ret[1].resp)
    /\ rts.t.set /\ rts.t.AccessToken # "" /\ expired(rts.t, now)

\* The token the exchange recorded in o gave, whole.
TokenOf(strategy, o) ==
    IF strategy = "signing" THEN TokenFromResponse(o.iat, o.resp).tok
    ELSE MetadataTokenFromResponse(o.iat, o.resp).tok

\* C11: under every interleaving of concurrent Token() calls, the cached token
\* changes only as an exchange ends in success and is then, in all its fields,
\* that one exchange's result; and every token a call returns is the cached
\* token, whole.
C11_NoTornToken ==
    [][ /\ rts'.t # rts.t =>
              /\ \E f \in Frames : req[f].active /\ ~req'[f].active
              /\ rts'.t.set
              /\ rts'.t = TokenOf(iap'.strategy, origin')
        /\ \A p \in Callers :
              (pc[p] # "idle" /\ pc'[p] = "idle" /\ ret'[p].ok) =>
                  /\ ret'[p].tok = rts'.t
                  /\ ret'[p].tok = TokenOf(iap.strategy, origin') ]_vars

\* Two goroutines hold the same token: one got it by an exchange, the other
\* from the cache that exchange filled.
C11_Witness ==
    /\ ret[1].done /\ ret[1].ok /\ ret[2].done /\ ret[2].ok
    /\ ret[1].tok = ret[2].tok /\ ret[1].tok = rts.t
    /\ ret[1].exchanges + ret[2].exchanges = 1

\* Caller p's Token() leaves ReuseTokenSource's check of the cache.
ChecksBy(p) == pc[p] = "lock" /\ pc'[p] # "lock"

\* C12: a token Token() returns without error was valid at some time during
\* the call: the cached token, checked when the clock was before its expiry
\* less the safety margin, or the token of an exchange made in this call, with
\* its expiry after the time the call began.  The cached token is returned
\* without an exchange exactly when the cache is set and the clock is not within
\* the safety margin of its expiry; otherwise the call exchanges, stores the
\* result and returns it.
C12_ValidDuringCall ==
    [][ \A p \in Callers :
          /\ ChecksBy(p) => (pc'[p] = "idle" <=> InWindow(rts.t, now))
          /\ (ChecksBy(p) /\ pc'[p] = "idle") =>
                /\ ret'[p].ok /\ ret'[p].tok = rts.t /\ ret'[p].exchanges = 0
                /\ req' = req
          /\ (ChecksBy(p) /\ pc'[p] # "idle") => (pc'[p] = "exchange" /\ req'[p].active)
          /\ (pc[p] = "exchange" /\ pc'[p] = "idle" /\ ret'[p].ok) =>
                /\ rts'.t = ret'[p].tok
                /\ Before(TimeOf(ret[p].began), ret'[p].tok.Expiry) ]_vars

\* C13: refresh is lazy: a request is sent only by New or by a Token() call
\* that found the cache not valid; the cached token changes only as such a
\* request's exchange ends; a step in which time passes sends nothing and
\* leaves the cache and every call as they were, whether or not the cached
\* token expires in it; and a Token() call that finds the cache valid returns
\* it with nothing sent.
C13_LazyRefresh ==
    [][ /\ now' # now =>
              (rts' = rts /\ req' = req /\ pc' = pc /\ ret' = ret /\ newPosts' = newPosts)
        /\ \A f \in Frames :
              (~req[f].active /\ req'[f].active) =>
                  \/ f = 0 /\ newPc = "start" /\ newPc' = "exchange"
                  \/ f \in Callers /\ pc[f] = "lock" /\ ~Valid(rts.t, now)
        /\ rts'.t # rts.t => \E f \in Frames : req[f].active /\ ~req'[f].active
        /\ \A p \in Callers :
              (ChecksBy(p) /\ Valid(rts.t, now)) =>
                  (pc'[p] = "idle" /\ req' = req /\ ret'[p].ok /\ ret'[p].tok = rts.t) ]_vars

\* Time has passed the cached token's expiry; the token is still cached and
\* nothing is in flight.
C13_Witness ==
    /\ ticks > 0 /\ rts.t.set /\ rts.t.AccessToken # ""
    /\ Before(rts.t.Expiry, TimeOf(now))
    /\ pc[1] = "idle" /\ \A f \in Frames : ~req[f].active

\* The frames with a request in flight.
InFlight == {f \in Frames : req[f].active}

\* C14: no two exchanges of one token source are in flight at once: of the
\* goroutines that find the cache unset or expired one sends a request, holding
\* the mutex until its exchange ends, and the others wait; a waiting goroutine
\* whose turn comes after an exchange stored a valid token returns that token
\* and sends nothing.
C14_OneInFlight ==
    [][ /\ Cardinality(InFlight) <= 1
        /\ \A p \in Callers :
              /\ pc[p] = "exchange" => (rts.mu = p /\ InFlight = {p})
              /\ (ChecksBy(p) /\ pc'[p] = "exchange") => (rts.mu = 0 /\ InFlight = {})
              /\ (ChecksBy(p) /\ Valid(rts.t, now)) =>
                    /\ pc'[p] = "idle" /\ req' = req
                    /\ ret'[p].ok /\ ret'[p].tok = rts.t /\ ret'[p].exchanges = 0 ]_vars

\* One goroutine is in its exchange while another waits for the mutex.
C14_Witness ==
    /\ pc[1] = "exchange" /\ req[1].active /\ rts.mu = 1
    /\ pc[2] = "lock" /\ ~req[2].active

\* C15: in the metadata flow the request carries the audience New was given
\* as its audience parameter; a fetch that succeeds at clock reading t gives
\* the token {the response body, "Bearer", t + 30 minutes}; a fetch that fails
\* gives an error and no token.
C15_MetadataFlow ==
    /\ \A f \in Frames :
          (req[f].active /\ req[f].method = "GET") =>
              (req[f].url = MetadataPath /\ req[f].audience = call.audience)
    /\ (iap.strategy = "metadata" /\ ret[1].done /\ ret[1].resp.kind = "metadata") =>
          /\ ret[1].ok
          /\ ret[1].tok =
               [set |-> TRUE, AccessToken |-> ret[1].resp.data, TokenType |-> "Bearer",
                Expiry |-> TimeOf(origin.iat + 1800)]
    /\ (iap.strategy = "metadata" /\ ret[1].done /\ ret[1].resp.kind = "metadata_error") =>
          (~ret[1].ok /\ ret[1].err # "" /\ ret[1].tok = NoToken)

\* C16: the metadata-aware New sends no request and leaves the cache unset;
\* the first Token() call finds the cache unset and performs one exchange; an
\* exchange that fails does so in that call, New having succeeded.
C16_NoEagerExchange ==
    [][ MetadataAware' =>
          /\ (newPc = "start" /\ newPc' # "start") =>
                /\ newPc' \in {"done", "failed"}
                /\ rts'.t = NoToken
                /\ \A f \in Frames : ~req'[f].active
          /\ newPosts' = 0 /\ ~req'[0].active
          /\ (ChecksBy(1) /\ nCalls = 1) =>
                (rts.t = NoToken /\ pc'[1] = "exchange" /\ req'[1].active)
          /\ (pc[1] = "exchange" /\ pc'[1] = "idle" /\ nCalls = 1) =>
                /\ ret'[1].exchanges = 1 /\ newPc' = "done" /\ newErr' = ""
                /\ FailedExchange(ret'[1].resp) =>
                      (~ret'[1].ok /\ ret'[1].err # "" /\ rts'.t = NoToken) ]_vars

\* New succeeded, and the first Token() call has failed in its exchange.
C16_Witness ==
    /\ MetadataAware /\ newPc = "done" /\ iap.strategy = "metadata"
    /\ nCalls = 1 /\ pc[1] = "idle"
    /\ ret[1].done /\ ~ret[1].ok /\ ret[1].resp.kind = "metadata_error"
    /\ rts.t = NoToken /\ newPosts = 0

\* C17: every POST of the signing flow goes to TokenURI, whatever token URL
\* the credentials name, with the jwt-bearer grant type and a signed assertion
\* whose iat is the clock reading at which this exchange began, whose exp is an
\* hour later and whose aud is the URL posted to; an exchange sends its request
\* once, signed as it is sent.
C17_PostShape ==
    [][ \A f \in Frames :
          /\ (req'[f].active /\ req'[f].method = "POST") =>
                /\ req'[f].url = TokenURI
                /\ req'[f].url # iap'.jwt.TokenURL
                /\ req'[f].grant_type = GrantType
                /\ req'[f].assertion.signed
                /\ req'[f].assertion.header = [Algorithm |-> "RS256", Typ |-> "JWT"]
                /\ req'[f].assertion.Iat = req'[f].iat
                /\ req'[f].assertion.Exp = req'[f].assertion.Iat + 3600
                /\ req'[f].assertion.Aud = req'[f].url
          /\ (~req[f].active /\ req'[f].active /\ req'[f].method = "POST") =>
                (req'[f].iat = now /\ req'[f].assertion.Iat = now)
          /\ (req[f].active /\ req'[f].active) => req'[f] = req[f] ]_vars

\* A refresh has its own assertion in flight, issued later than the one New sent.
C17_Witness ==
    /\ Signing /\ newPc = "done" /\ pc[1] = "exchange"
    /\ req[1].active /\ req[1].method = "POST"
    /\ iap.jwt.TokenURL = KeyFileTokenURI
    /\ origin.resp.kind = "http" /\ req[1].assertion.Iat > origin.iat

\* The POST failed in transport, or its body is not JSON.
NoResponseOrNotJSON(r) == r.kind = "transport_error" \/ (r.kind = "http" /\ ~r.unmarshals)

\* C18: in the signing flow a POST that fails in transport, or a response body
\* that is not JSON, makes the exchange return an error and no token: New, in
\* whose exchange it happens, returns an error and no token source, and
\* Token(), in whose refresh it happens, returns the error.
C18_TransportOrParseError ==
    Signing =>
        /\ (newPc \in {"done", "failed"} /\ nCalls = 0 /\ NoResponseOrNotJSON(origin.resp)) =>
              /\ newPc = "failed" /\ newErr = "failed to get token"
              /\ iap = NoIAP /\ rts.t = NoToken
        /\ \A p \in Callers :
              (ret[p].done /\ NoResponseOrNotJSON(ret[p].resp)) =>
                  /\ ~ret[p].ok /\ ret[p].tok = NoToken
                  /\ ret[p].err =
                       IF ret[p].resp.kind = "transport_error"
                       THEN "failed to POST token request"
                       ELSE "failed to unmarshal request body"

\* A refresh has returned the error of a body that is not JSON.
C18_Witness ==
    /\ Signing /\ newPc = "done" /\ pc[1] = "idle"
    /\ ret[1].done /\ ret[1].resp = NotJSON(500)
    /\ ~ret[1].ok /\ ret[1].err = "failed to unmarshal request body"

\* The blob is JSON of a service account.
IsServiceAccount(b) == b.json /\ b.type = "service_account"

\* The option returns an error when it is applied.
OptionFails(o) ==
    \/ o.type = "WithServiceAccount" /\ ~IsServiceAccount(o.json)
    \/ /\ o.type = "WithServiceAccountFile"
       /\ (o.filename \notin DOMAIN Files \/ ~IsServiceAccount(Files[o.filename]))

\* The options that set the PostFormer.
PostFormerOptions(opts) == {k \in 1..Len(opts) : opts[k].type = "WithPostFormer"}

Last(ks) == CHOOSE k \in ks : \A j \in ks : j <= k

\* The blob an option that sets the service account takes it from.
BlobOf(o) == IF o.type = "WithServiceAccount" THEN o.json ELSE Files[o.filename]

\* C19: the signing flow's New applies its options in the order given, the
\* last service-account option and the last PostFormer option being the ones
\* in force; an option that returns an error makes New return "option
\* failed" and no token source, nothing sent; the environment variable is
\* used only when no option has set a service account.
C19_OptionsInOrder ==
    (Signing /\ newPc # "start") =>
        IF \E k \in 1..Len(call.opts) : OptionFails(call.opts[k])
        THEN /\ newPc = "failed" /\ newErr = "option failed"
             /\ iap = NoIAP /\ newPosts = 0
             /\ \A f \in Frames : ~req[f].active
        ELSE LET cs == CredentialOptions(call.opts)
                 ps == PostFormerOptions(call.opts)
             IN  /\ cs # {} =>
                       /\ newLog.source = "option" /\ newLog.parsed
                       /\ newLog.key = BlobOf(call.opts[Last(cs)]).private_key
                       /\ newPc \in {"exchange", "done"} =>
                             iap.jwt.Email = BlobOf(call.opts[Last(cs)]).client_email
                 /\ cs = {} =>
                       /\ newLog.source # "option"
                       /\ newPc \in {"exchange", "done"} =>
                             iap.jwt.Email = Files[osenv.cred].client_email
                 /\ newPc \in {"exchange", "done"} =>
                       iap.postFormer =
                           IF ps = {} THEN "http.Client" ELSE call.opts[Last(ps)].p

\* Of two service-account options New was given, the second is in force,
\* although the environment variable names a file.
C19_Witness ==
    /\ Signing /\ newPc = "exchange" /\ osenv.cred = "sa.json"
    /\ Len(call.opts) = 2
    /\ call.opts[1] = WithServiceAccount(ServiceAccount(Email2, GoodPKCS8))
    /\ call.opts[2] = WithServiceAccount(ServiceAccount(Email1, GoodPKCS1))
    /\ iap.jwt.Email = Email1 /\ req[0].assertion.Iss = Email1

====
